---- MODULE Spec2Model ----
(***************************************************************************)
(* PhotoLite editor: the undo/redo history (HistoryManager), the restore   *)
(* protocol (_restoreState) and the layer list (LayerManager) over the     *)
(* live Fabric canvas.                                                     *)
(*                                                                         *)
(* JavaScript runs one event handler at a time.  Every action below is one *)
(* handler run to completion, or the part of an async function between two *)
(* awaits.  Indices of `states` are 0-based in the code and 1-based here:  *)
(* the code's states[currentIndex] is states[currentIndex + 1].            *)
(***************************************************************************)
EXTENDS Integers, Sequences, FiniteSets, TLC

\* ---------------------------------------------------------------- bounds
MaxCapacity == 2      \* capacities 1 and MaxCapacity are tried for maxStates
MaxTime == 5          \* Date.now() advances by one per user event, up to this
MaxObjects == 2       \* objects on the canvas
MaxPending == 2       \* restores whose loadFromJSON has not resolved yet
MaxSteps == 6         \* handlers run in the history-only specification

\* width and height given to resizeCanvas
NewSizes == {<<1, 2>>}
\* width, height and background entered in the New Canvas dialog
NewCanvases == {<<2, 2, "#000000">>}
NewNames == {<<"Renamed">>}           \* names typed into the rename box
\* opacities given to setLayerOpacity, in hundredths: 100 is Fabric's 1
NewOpacities == {0, 50}

VARIABLES
    states,          \* HistoryManager.states
    currentIndex,    \* HistoryManager.currentIndex
    maxStates,       \* HistoryManager.maxStates
    isRestoring,     \* HistoryManager.isRestoring
    objects,         \* canvas.getObjects(): live objects in draw order
    width,           \* canvas.getWidth()
    height,          \* canvas.getHeight()
    backgroundColor, \* canvas.backgroundColor
    cmSize,          \* <<CanvasManager.width, CanvasManager.height>>
    layers,          \* LayerManager.layers
    layerCounter,    \* LayerManager.layerCounter
    pending,         \* _restoreState calls suspended at await loadFromJSON
    cloning,         \* duplicateLayer calls suspended at await clone()
    cropTool,        \* CropTool: isActive, cropRect (TRUE while the crop
                     \* rectangle is on the canvas) and applying, <<>> or
                     \* the applyCrop call suspended at its await
    _textChangeTimeout, \* TextTool._textChangeTimeout: <<>> if no timer is
                     \* pending, <<t>> for the timer set at time t
    activeShape,     \* ShapeTool.activeShape: the ref of the shape being
                     \* drawn, 0 if none, -1 if it has left the canvas
    now,             \* Date.now()
    \* what the last handler did, as its caller and the subscribers saw it
    lastOp,          \* name of the last handler
    args,            \* the ids reorderLayers was called with, <<>> for the
                     \* other handlers
    saved,           \* its saveState call: "none", "ignored" or "accepted"
    ret,             \* what undo/redo returned: "false", "promise" (an async
                     \* call still suspended), "true" (the promise resolved)
                     \* or "rejected" (the promise was rejected); "TypeError"
                     \* if the handler threw one
    delivered,       \* infos passed to the onChange subscriber, in order
    lastInfo,        \* the info the subscriber got last, <<>> before the first
    events,          \* details of the canvas:restored events dispatched, and
                     \* the isRestoring their listeners found
    lastCommit,      \* the last handler's accepted saveState: history before
                     \* it and the snapshot it made; kept, marked undone, by an
                     \* undo that comes next; <<>> otherwise
    commitRun,       \* accepted saveStates so far, -1 after undo/redo/clear
    completed,       \* the restore the last step completed, <<>> if none
    trip             \* an undo, its completion, a redo, its completion, with
                     \* nothing in between: how far it got, the canvas as
                     \* serialized and the lock flags of its objects just
                     \* before the undo, and whether the handler before the
                     \* undo committed that canvas

hist == <<states, currentIndex, maxStates, isRestoring>>
scene == <<objects, width, height, backgroundColor>>
vars == <<states, currentIndex, maxStates, isRestoring, objects, width, height,
          backgroundColor, cmSize, layers, layerCounter, pending, cloning,
          cropTool, _textChangeTimeout, activeShape, now, lastOp, args, saved,
          ret, delivered, lastInfo, events, lastCommit, commitRun, completed,
          trip>>

\* ------------------------------------------------------ sequence helpers
Reverse(s) == [i \in 1..Len(s) |-> s[Len(s) + 1 - i]]

RemoveAt(s, i) == SubSeq(s, 1, i - 1) \o SubSeq(s, i + 1, Len(s))

InsertAt(s, i, x) == SubSeq(s, 1, i - 1) \o <<x>> \o SubSeq(s, i, Len(s))

Min(a, b) == IF a < b THEN a ELSE b

\* ------------------------------------------------------------ the canvas
\* canvas.toJSON(['id','layerId','layerName','selectable','evented']) keeps
\* Fabric's own properties (left, visible, opacity, text, ...) and the listed
\* custom ones; text is <<>> on an object that is not a text;
\* isLocked and the object's identity are not part of it.
toObject(o) ==
    [layerId |-> o.layerId, layerName |-> o.layerName, visible |-> o.visible,
     opacity |-> o.opacity, selectable |-> o.selectable,
     evented |-> o.evented, left |-> o.left, text |-> o.text]

toJSON(objs) == [i \in 1..Len(objs) |-> toObject(objs[i])]

\* loadFromJSON builds new objects from the serialized ones; a property the
\* JSON does not carry is undefined on them (isLocked === true is false).
enliven(j, r) ==
    [ref |-> r, layerId |-> j.layerId, layerName |-> j.layerName,
     visible |-> j.visible, opacity |-> j.opacity, isLocked |-> FALSE,
     selectable |-> j.selectable, evented |-> j.evented, left |-> j.left,
     text |-> j.text]

loadFromJSON(json) == [i \in 1..Len(json) |-> enliven(json[i], i)]

Refs(objs) == {objs[i].ref : i \in 1..Len(objs)}

FreshRef(objs) == CHOOSE r \in 1..(Len(objs) + 1) : r \notin Refs(objs)

\* ----------------------------------------------------------- LayerManager
_generateLayerId(t, c) == <<"layer", t, c>>

\* `Layer ${index + 1}` for the 0-based index of the object
DefaultName(i) == <<"Layer", <<"1", "2", "3", "4">>[i]>>

_syncLayersFromCanvas(objs) ==
    Reverse([i \in 1..Len(objs) |->
        [id |-> objs[i].layerId,
         name |-> IF objs[i].layerName = <<>> THEN DefaultName(i) ELSE objs[i].layerName,
         visible |-> objs[i].visible # FALSE,
         opacity |-> IF objs[i].opacity = 0 THEN 100 ELSE objs[i].opacity,
         locked |-> objs[i].isLocked = TRUE,
         object |-> objs[i].ref]])

\* this.layers.find(l => l.id === layerId): index in layers, 0 if none
FindLayer(ls, layerId) ==
    IF \E i \in 1..Len(ls) : ls[i].id = layerId
    THEN CHOOSE i \in 1..Len(ls) :
            ls[i].id = layerId /\ \A j \in 1..(i - 1) : ls[j].id # layerId
    ELSE 0

\* canvas.getObjects().indexOf(obj): index in objects, 0 if none
IndexOfRef(objs, r) ==
    IF \E i \in 1..Len(objs) : objs[i].ref = r
    THEN CHOOSE i \in 1..Len(objs) :
            objs[i].ref = r /\ \A j \in 1..(i - 1) : objs[j].ref # r
    ELSE 0

\* --------------------------------------------------------- HistoryManager
\* a canUndo that also allows leaving the first snapshot
canUndo_fromFirst(idx) == idx >= 0

canUndo(idx) == idx > 0

\* a canRedo that also allows leaving the last snapshot
canRedo_fromLast(sts, idx) == idx < Len(sts)

canRedo(sts, idx) == idx < Len(sts) - 1

getInfo(sts, idx) ==
    [totalStates |-> Len(sts), currentIndex |-> idx, canUndo |-> canUndo(idx),
     canRedo |-> canRedo(sts, idx),
     currentAction |-> IF idx >= 0 /\ idx < Len(sts) THEN sts[idx + 1].action
                       ELSE "Initial"]

\* a saveState that keeps the redo branch
sliceBranch_keepsBranch(sts, idx) == sts

\* a saveState that drops the snapshot under the cursor with the redo branch
sliceBranch_dropsCursor(sts, idx) ==
    IF idx < Len(sts) - 1 THEN SubSeq(sts, 1, idx) ELSE sts

\* a saveState that drops every stored snapshot with the redo branch
sliceBranch_dropsAll(sts, idx) ==
    IF idx < Len(sts) - 1 THEN <<>> ELSE sts

\* saveState, lines 28-31: drop the redo branch
sliceBranch(sts, idx) ==
    IF idx < Len(sts) - 1 THEN SubSeq(sts, 1, idx + 1) ELSE sts

\* saveState, lines 34-42: the snapshot of the canvas
makeState(objs, w, h, bg, action, t) ==
    [json |-> toJSON(objs), action |-> action, timestamp |-> t,
     canvasWidth |-> w, canvasHeight |-> h, backgroundColor |-> bg]

\* a saveState that never evicts
limitSize_unbounded(sts, idx, cap) == [states |-> sts, currentIndex |-> idx]

\* a saveState that evicts but leaves the cursor where the push put it
limitSize_keepsCursor(sts, idx, cap) ==
    IF Len(sts) > cap
    THEN [states |-> Tail(sts), currentIndex |-> idx]
    ELSE [states |-> sts, currentIndex |-> idx]

\* saveState, lines 47-51: evict the oldest snapshot over capacity
limitSize(sts, idx, cap) ==
    IF Len(sts) > cap
    THEN [states |-> Tail(sts), currentIndex |-> idx - 1]
    ELSE [states |-> sts, currentIndex |-> idx]

\* saveState(canvas, action) on the history (sts, idx) with the canvas
\* serialized into snap; the result is the history afterwards, what became
\* of the call, and the infos _notifyChange delivered
saveState(sts, idx, cap, restoring, snap) ==
    IF restoring
    THEN [states |-> sts, currentIndex |-> idx, saved |-> "ignored",
          delivered |-> <<>>]
    ELSE LET kept == sliceBranch(sts, idx)
             pushed == Append(kept, snap)
             res == limitSize(pushed, idx + 1, cap)
         IN [states |-> res.states, currentIndex |-> res.currentIndex,
             saved |-> "accepted",
             delivered |-> <<getInfo(res.states, res.currentIndex)>>]

\* a clear() that forgets to reset the cursor
clear_keepsCursor(sts, idx) ==
    [states |-> <<>>, currentIndex |-> idx, delivered |-> <<getInfo(<<>>, idx)>>]

\* clear()
clear(sts, idx) ==
    [states |-> <<>>, currentIndex |-> -1, delivered |-> <<getInfo(<<>>, -1)>>]

\* ------------------------------------------------------------- handlers
\* an event handler runs at a later time than the one before it
Clock(name) ==
    /\ now < MaxTime
    /\ now' = now + 1
    /\ lastOp' = name
    /\ args' = <<>>

\* a handler started with the mouse or the keyboard: the mouse button is not
\* held down on the canvas drawing a shape
\* the canvas as the round trip compares it
serialized ==
    [json |-> toJSON(objects), width |-> width, height |-> height,
     backgroundColor |-> backgroundColor]

Handler(name) ==
    /\ Clock(name)
    /\ activeShape = 0
    /\ UNCHANGED <<activeShape, _textChangeTimeout>>

Tick(name) ==
    /\ Handler(name)
    /\ UNCHANGED cropTool

\* _notifyChange, seen from the subscriber: the last info is the one it keeps
Notified ==
    lastInfo' = IF delivered' = <<>> THEN lastInfo
                ELSE <<delivered'[Len(delivered')]>>

\* a handler that calls neither saveState nor the restore protocol
Quiet ==
    /\ saved' = "none"
    /\ ret' = "none"
    /\ delivered' = <<>>
    /\ Notified
    /\ events' = <<>>
    /\ lastCommit' = <<>>
    /\ completed' = <<>>
    /\ trip' = <<>>
    /\ UNCHANGED <<states, currentIndex, maxStates, isRestoring, pending,
                   commitRun>>

\* a handler that runs at time t, has changed the canvas to (objs, w, h, bg)
\* and then calls saveState(canvas, action) on the history (sts, idx); before
\* holds the infos the handler's earlier calls delivered
CommitAt(t, sts, idx, before, objs, w, h, bg, action) ==
    LET snap == makeState(objs, w, h, bg, action, t)
        res == saveState(sts, idx, maxStates, isRestoring, snap)
    IN /\ objects' = objs
       /\ width' = w
       /\ height' = h
       /\ backgroundColor' = bg
       /\ states' = res.states
       /\ currentIndex' = res.currentIndex
       /\ saved' = res.saved
       /\ delivered' = before \o res.delivered
       /\ Notified
       /\ lastCommit' = IF res.saved = "accepted"
                        THEN <<[old |-> sts, oldIndex |-> idx, new |-> snap,
                                undone |-> FALSE]>>
                        ELSE <<>>
       /\ ret' = "none"
       /\ events' = <<>>
       /\ completed' = <<>>
       /\ trip' = <<>>
       /\ UNCHANGED <<maxStates, isRestoring, pending>>

\* the same for a handler started by Tick: the time it reads is now
Commit(sts, idx, before, objs, w, h, bg, action) ==
    CommitAt(now, sts, idx, before, objs, w, h, bg, action)

CountCommit ==
    commitRun' = IF saved' = "accepted" /\ commitRun >= 0 THEN commitRun + 1
                 ELSE commitRun

\* ShapeTool.addRectangle: the new object gets 'layer_' + Date.now();
\* canvas.add fires object:added and the layer list is rebuilt
addRectangle(t) ==
    /\ Len(objects) < MaxObjects
    /\ LET rect == [ref |-> FreshRef(objects), layerId |-> <<"layer", t>>,
                    layerName |-> <<"Rectangle">>, visible |-> TRUE,
                    opacity |-> 100, isLocked |-> FALSE, selectable |-> TRUE,
                    evented |-> TRUE, left |-> 0, text |-> <<>>]
           objs == Append(objects, rect)
       IN /\ CommitAt(t, states, currentIndex, <<>>, objs, width, height,
                      backgroundColor, "Add Rectangle")
          /\ layers' = _syncLayersFromCanvas(objs)
    /\ CountCommit
    /\ UNCHANGED <<cmSize, layerCounter, cloning>>

\* addRectangle called in a later millisecond than the handler before it
AddRectangle ==
    /\ Tick("addRectangle")
    /\ addRectangle(now)

\* addRectangle called again before Date.now() has advanced: it reads the
\* time the call before it read
AddRectangleAtOnce ==
    /\ lastOp = "addRectangle"
    /\ activeShape = 0
    /\ UNCHANGED <<activeShape, _textChangeTimeout, cropTool>>
    /\ now' = now
    /\ lastOp' = "addRectangle"
    /\ args' = <<>>
    /\ addRectangle(now - 1)

\* the user drags object i; Fabric fires object:modified and the listener
\* of _bindHistoryEvents saves the state
ObjectModified(i) ==
    /\ Tick("objectModified")
    /\ objects[i].selectable /\ objects[i].evented
    /\ Commit(states, currentIndex, <<>>, [objects EXCEPT ![i].left = IF @ = 0 THEN 1 ELSE 0],
              width, height, backgroundColor, "Modify")
    /\ CountCommit
    /\ UNCHANGED <<cmSize, layers, layerCounter, cloning>>

\* Delete key with object i selected: canvas.remove fires object:removed
DeleteSelected(i) ==
    /\ Tick("deleteSelected")
    /\ objects[i].selectable /\ objects[i].evented
    /\ LET objs == RemoveAt(objects, i)
       IN /\ Commit(states, currentIndex, <<>>, objs, width, height,
                    backgroundColor, "Delete")
          /\ layers' = _syncLayersFromCanvas(objs)
    /\ CountCommit
    /\ UNCHANGED <<cmSize, layerCounter, cloning>>

\* TransformTool.resizeCanvas(w, h, 'top-left'): the objects keep their
\* place (offset 0), CanvasManager.resize sets the canvas and its own size
ResizeCanvas(w, h) ==
    /\ Tick("resizeCanvas")
    /\ Commit(states, currentIndex, <<>>, objects, w, h, backgroundColor,
              "Resize Canvas")
    /\ cmSize' = <<w, h>>
    /\ CountCommit
    /\ UNCHANGED <<layers, layerCounter, cloning>>

\* FileHandler.createNewCanvas: CanvasManager.createNew resizes, clears the
\* canvas (object:removed for every object) and sets the background; then
\* historyManager.clear() and historyManager.saveState(canvas, 'New Canvas')
CreateNewCanvas(w, h, bg) ==
    /\ Tick("createNewCanvas")
    /\ LET c == clear(states, currentIndex)
       IN Commit(c.states, c.currentIndex, c.delivered, <<>>, w, h, bg,
                 "New Canvas")
    /\ cmSize' = <<w, h>>
    /\ layers' = _syncLayersFromCanvas(<<>>)
    /\ commitRun' = -1
    /\ UNCHANGED <<layerCounter, cloning>>

\* canvas.bringObjectToFront, sendObjectToBack, bringObjectForward and
\* sendObjectBackwards: the object at index i moves in the draw order; no
\* object:added or object:removed is fired.  The handler tried is the one
\* of StackingKinds; the others differ only in the index and the label
StackingKinds == {"Bring to Front"}

restack(objs, i, kind) ==
    LET j == CASE kind = "Bring to Front" -> Len(objs)
               [] kind = "Send to Back" -> 1
               [] kind = "Bring Forward" -> Min(i + 1, Len(objs))
               [] kind = "Send Backward" -> IF i > 1 THEN i - 1 ELSE 1
    IN InsertAt(RemoveAt(objs, i), j, objs[i])

\* TransformTool.bringToFront, sendToBack, bringForward, sendBackward with
\* object i active: the canvas restacks it and the state is saved; the layer
\* list is not rebuilt
ChangeStacking(kind, i) ==
    /\ Tick("changeStacking")
    /\ objects[i].selectable /\ objects[i].evented
    /\ Commit(states, currentIndex, <<>>, restack(objects, i, kind), width,
              height, backgroundColor, kind)
    /\ CountCommit
    /\ UNCHANGED <<cmSize, layers, layerCounter, cloning>>

\* ------------------------------------------- drawing a shape by dragging
\* _generateLayerName for a rect
_generateLayerName == <<"Rectangle">>

\* the object:added listener of the LayerManager, for an object that is not
\* crop UI, at time t with layerCounter c: an object without layerId (<<>>)
\* gets a generated one and a generated name
objectAdded(obj, t, c) ==
    IF obj.layerId = <<>>
    THEN [obj EXCEPT !.layerId = _generateLayerId(t, c),
                     !.layerName = _generateLayerName]
    ELSE obj

\* ShapeTool._handleMouseDown: _createShape makes a shape that has no
\* layerId and cannot be selected, and canvas.add fires object:added
_handleMouseDown ==
    /\ Clock("mouseDown")
    /\ activeShape = 0
    /\ UNCHANGED <<_textChangeTimeout, cropTool>>
    /\ Len(objects) < MaxObjects
    /\ LET shape == [ref |-> FreshRef(objects), layerId |-> <<>>,
                     layerName |-> <<>>, visible |-> TRUE, opacity |-> 100,
                     isLocked |-> FALSE, selectable |-> FALSE,
                     evented |-> FALSE, left |-> 0, text |-> <<>>]
           objs == Append(objects, objectAdded(shape, now, layerCounter))
       IN /\ objects' = objs
          /\ layers' = _syncLayersFromCanvas(objs)
          /\ activeShape' = shape.ref
    /\ layerCounter' = layerCounter + 1
    /\ Quiet
    /\ UNCHANGED <<width, height, backgroundColor, cmSize, cloning>>

\* ShapeTool._handleMouseUp: the shape gets 'layer_' + Date.now() and the
\* name of its kind and becomes selectable; if it is smaller than 5 by 5 it
\* is removed (object:removed rebuilds the layer list), otherwise the state
\* is saved.  A shape that a restore took off the canvas is still the
\* activeShape: the canvas is saved without it
_handleMouseUp(small) ==
    /\ Clock("mouseUp")
    /\ activeShape # 0
    /\ UNCHANGED <<_textChangeTimeout, cropTool>>
    /\ activeShape' = 0
    /\ LET i == IndexOfRef(objects, activeShape)
           objs == IF activeShape = -1 THEN objects
                   ELSE [objects EXCEPT ![i].layerId = <<"layer", now>>,
                                        ![i].layerName = <<"Rectangle">>,
                                        ![i].selectable = TRUE,
                                        ![i].evented = TRUE]
       IN IF small
          THEN /\ objects' = IF activeShape = -1 THEN objs ELSE RemoveAt(objs, i)
               /\ layers' = IF activeShape = -1 THEN layers
                            ELSE _syncLayersFromCanvas(objects')
               /\ Quiet
               /\ UNCHANGED <<width, height, backgroundColor>>
          ELSE /\ Commit(states, currentIndex, <<>>, objs, width, height,
                         backgroundColor, "Draw Rectangle")
               /\ CountCommit
               /\ UNCHANGED layers
    /\ UNCHANGED <<cmSize, layerCounter, cloning>>

\* ------------------------------------------------------------ text tool
\* TextTool.addText: an IText with 'layer_' + Date.now() is added (the layer
\* list is rebuilt) and the state is saved
addText ==
    /\ Tick("addText")
    /\ Len(objects) < MaxObjects
    /\ LET textObj == [ref |-> FreshRef(objects), layerId |-> <<"layer", now>>,
                       layerName |-> <<"Text Layer">>, visible |-> TRUE,
                       opacity |-> 100, isLocked |-> FALSE,
                       selectable |-> TRUE, evented |-> TRUE, left |-> 0,
                       text |-> <<"a">>]
           objs == Append(objects, textObj)
       IN /\ Commit(states, currentIndex, <<>>, objs, width, height,
                    backgroundColor, "Add Text")
          /\ layers' = _syncLayersFromCanvas(objs)
    /\ CountCommit
    /\ UNCHANGED <<cmSize, layerCounter, cloning>>

\* the user types into the text object i: Fabric changes its text and fires
\* text:changed, whose listener replaces the pending timer by a new one
textChanged(i) ==
    /\ Clock("textChanged")
    /\ activeShape = 0
    /\ UNCHANGED <<activeShape, cropTool>>
    /\ objects[i].text # <<>>
    /\ objects[i].selectable /\ objects[i].evented
    /\ objects' = [objects EXCEPT ![i].text = IF @ = <<"a">> THEN <<"a", "b">>
                                              ELSE <<"a">>]
    /\ _textChangeTimeout' = <<now>>
    /\ Quiet
    /\ UNCHANGED <<width, height, backgroundColor, cmSize, layers,
                   layerCounter, cloning>>

\* the timer of text:changed fires, 500 ms after it was set:
\* saveState(canvas, 'Edit Text')
textTimerFired ==
    /\ Clock("textTimerFired")
    /\ _textChangeTimeout # <<>>
    /\ _textChangeTimeout' = <<>>
    /\ Commit(states, currentIndex, <<>>, objects, width, height,
              backgroundColor, "Edit Text")
    /\ CountCommit
    /\ UNCHANGED <<cmSize, layers, layerCounter, cloning, activeShape,
                   cropTool>>

\* ------------------------------------------------------------ crop tool
\* CropTool.cancelCrop: _removeCropUI and deactivate; an applyCrop that is
\* suspended is not touched
cancelCrop(ct) == [ct EXCEPT !.isActive = FALSE, !.cropRect = FALSE]

\* PhotoLiteApp.undo and redo: if the crop tool is active, cancel it first
cancelIfActive(ct) == IF ct.isActive THEN cancelCrop(ct) ELSE ct

\* the crop tool is chosen: CropTool.activate puts the crop rectangle and
\* its overlays on the canvas (isCropUI and excludeFromExport: no layer, not
\* in toJSON)
activateCrop ==
    /\ Handler("activateCrop")
    /\ ~cropTool.isActive
    /\ cropTool' = [cropTool EXCEPT !.isActive = TRUE, !.cropRect = TRUE]
    /\ Quiet
    /\ UNCHANGED <<objects, width, height, backgroundColor, cmSize, layers,
                   layerCounter, cloning>>

\* CropTool.applyCrop up to await fabric.FabricImage.fromURL(...): the crop
\* UI is removed, saveState(canvas, 'Before Crop'), and the call is suspended
\* with the size w x h of the crop rectangle; before and from are the canvas
\* and the cursor as they were when it was called
applyCrop(w, h) ==
    /\ Handler("applyCrop")
    /\ cropTool.cropRect
    /\ cropTool' = [cropTool EXCEPT !.cropRect = FALSE,
                       !.applying = <<[cropWidth |-> w, cropHeight |-> h,
                                       before |-> serialized,
                                       from |-> currentIndex]>>]
    /\ Commit(states, currentIndex, <<>>, objects, width, height,
              backgroundColor, "Before Crop")
    /\ CountCommit
    /\ UNCHANGED <<cmSize, layers, layerCounter, cloning>>

\* applyCrop after the await: canvas.clear(), canvasManager.resize to the
\* crop size, the cropped image with 'layer_' + Date.now() is added on a
\* white background (the layer list is rebuilt), saveState(canvas, 'Crop'),
\* and the tool is deactivated
cropLoaded ==
    /\ Handler("cropLoaded")
    /\ cropTool.applying # <<>>
    /\ cropTool' = [isActive |-> FALSE, cropRect |-> FALSE, applying |-> <<>>]
    /\ LET a == cropTool.applying[1]
           img == [ref |-> 1, layerId |-> <<"layer", now>>,
                   layerName |-> <<"Cropped Image">>, visible |-> TRUE,
                   opacity |-> 100, isLocked |-> FALSE, selectable |-> TRUE,
                   evented |-> TRUE, left |-> 0, text |-> <<>>]
       IN /\ Commit(states, currentIndex, <<>>, <<img>>, a.cropWidth,
                    a.cropHeight, "#ffffff", "Crop")
          /\ cmSize' = <<a.cropWidth, a.cropHeight>>
          /\ layers' = _syncLayersFromCanvas(<<img>>)
    /\ CountCommit
    /\ UNCHANGED <<layerCounter, cloning>>

\* ------------------------------------------------- layer panel handlers
\* none of them calls saveState

\* the object a layer descriptor refers to: its index in objects, 0 if the
\* descriptor is missing or its object is no longer on the canvas
LayerObject(layerId) ==
    LET li == FindLayer(layers, layerId)
    IN IF li = 0 THEN 0 ELSE IndexOfRef(objects, layers[li].object)

LayerIds == {layers[i].id : i \in 1..Len(layers)}

toggleLayerVisibility(layerId) ==
    /\ Tick("toggleLayerVisibility")
    /\ LET li == FindLayer(layers, layerId)
           oi == LayerObject(layerId)
       IN /\ oi # 0
          /\ objects' = [objects EXCEPT ![oi].visible = ~@]
          /\ layers' = [layers EXCEPT ![li].visible = ~objects[oi].visible]
    /\ Quiet
    /\ UNCHANGED <<width, height, backgroundColor, cmSize, layerCounter, cloning>>

toggleLayerLock(layerId) ==
    /\ Tick("toggleLayerLock")
    /\ LET li == FindLayer(layers, layerId)
           oi == LayerObject(layerId)
           isLocked == ~objects[oi].isLocked
       IN /\ oi # 0
          /\ objects' = [objects EXCEPT ![oi].isLocked = isLocked,
                                        ![oi].selectable = ~isLocked,
                                        ![oi].evented = ~isLocked]
          /\ layers' = [layers EXCEPT ![li].locked = isLocked]
    /\ Quiet
    /\ UNCHANGED <<width, height, backgroundColor, cmSize, layerCounter, cloning>>

\* setLayerOpacity(layerId, opacity): the object and its descriptor get the
\* opacity; the layer list is not rebuilt and no state is saved
setLayerOpacity(layerId, opacity) ==
    /\ Tick("setLayerOpacity")
    /\ LET li == FindLayer(layers, layerId)
           oi == LayerObject(layerId)
       IN /\ oi # 0
          /\ objects' = [objects EXCEPT ![oi].opacity = opacity]
          /\ layers' = [layers EXCEPT ![li].opacity = opacity]
    /\ Quiet
    /\ UNCHANGED <<width, height, backgroundColor, cmSize, layerCounter, cloning>>

\* the ids a drag can carry to the drop: those of the list, and the id of a
\* layer that was removed after the drag started; the drop target is an item
\* of the list as it is now
StaleId == <<"layer", -1>>

DragIds == LayerIds \cup {StaleId}

\* a reorderLayers that does not check what it found
reorderFound_unchecked(fromIndex, toIndex) == "TypeError"

\* reorderLayers, lines 1187-1193, for the canvas indices found for the two
\* layers (0: no such layer, or its object is not on the canvas): nothing
\* happens unless both are found.  Then line 1192 calls
\* fromLayer.object.moveTo, which the Fabric.js 6 of this editor does not
\* define on objects (stacking is canvas.moveObjectTo): the call throws a
\* TypeError before the canvas or the layer list is touched
reorderFound(fromIndex, toIndex) ==
    IF fromIndex # 0 /\ toIndex # 0 THEN "TypeError" ELSE "none"

reorderLayers(fromId, toId) ==
    /\ activeShape = 0
    /\ UNCHANGED <<activeShape, _textChangeTimeout, cropTool>>
    /\ now < MaxTime
    /\ now' = now + 1
    /\ lastOp' = "reorderLayers"
    /\ args' = <<fromId, toId>>
    /\ fromId # toId
    /\ ret' = reorderFound(LayerObject(fromId), LayerObject(toId))
    /\ saved' = "none"
    /\ delivered' = <<>>
    /\ Notified
    /\ events' = <<>>
    /\ lastCommit' = <<>>
    /\ completed' = <<>>
    /\ trip' = <<>>
    /\ UNCHANGED <<states, currentIndex, maxStates, isRestoring, pending,
                   commitRun, objects, layers, width, height, backgroundColor,
                   cmSize, layerCounter, cloning>>

renameLayer(layerId, newName) ==
    /\ Tick("renameLayer")
    /\ LET li == FindLayer(layers, layerId)
           oi == LayerObject(layerId)
       IN /\ oi # 0
          /\ objects' = [objects EXCEPT ![oi].layerName = newName]
          /\ layers' = [layers EXCEPT ![li].name = newName]
    /\ Quiet
    /\ UNCHANGED <<width, height, backgroundColor, cmSize, layerCounter, cloning>>

deleteLayer(layerId) ==
    /\ Tick("deleteLayer")
    /\ LET oi == LayerObject(layerId)
           objs == RemoveAt(objects, oi)
       IN /\ oi # 0
          /\ objects' = objs
          /\ layers' = _syncLayersFromCanvas(objs)
    /\ Quiet
    /\ UNCHANGED <<width, height, backgroundColor, cmSize, layerCounter, cloning>>

\* duplicateLayer up to await layer.object.clone(): clone() copies Fabric's
\* own properties, not the custom ones
duplicateLayer(layerId) ==
    /\ Tick("duplicateLayer")
    /\ Len(objects) + Len(cloning) < MaxObjects
    /\ LET li == FindLayer(layers, layerId)
           oi == LayerObject(layerId)
       IN /\ oi # 0
          /\ cloning' = Append(cloning,
                 [visible |-> objects[oi].visible, left |-> objects[oi].left,
                  opacity |-> objects[oi].opacity, text |-> objects[oi].text,
                  name |-> layers[li].name])
    /\ Quiet
    /\ UNCHANGED <<objects, layers, width, height, backgroundColor, cmSize,
                   layerCounter>>

\* duplicateLayer after the await: the clone is moved by 20, gets a generated
\* id and the name of the layer with ' Copy', and is added to the canvas
cloneResolved ==
    /\ cloning # <<>>
    /\ lastOp' = "cloneResolved"
    /\ args' = <<>>
    /\ LET c == Head(cloning)
           cloned == [ref |-> FreshRef(objects),
                      layerId |-> _generateLayerId(now, layerCounter),
                      layerName |-> c.name \o <<"Copy">>,
                      visible |-> c.visible, opacity |-> c.opacity,
                      isLocked |-> FALSE,
                      selectable |-> TRUE, evented |-> TRUE,
                      left |-> c.left + 20, text |-> c.text]
           objs == Append(objects, cloned)
       IN /\ objects' = objs
          /\ layers' = _syncLayersFromCanvas(objs)
    /\ layerCounter' = layerCounter + 1
    /\ cloning' = Tail(cloning)
    /\ Quiet
    /\ UNCHANGED <<width, height, backgroundColor, cmSize, now, activeShape,
                   _textChangeTimeout, cropTool>>

\* --------------------------------------------------- undo, redo, restore
\* the canvas after the synchronous part of _restoreState(canvas, state):
\* the size if the snapshot has one that differs, the background if it has
\* one that differs
restoredSize(state, w, h) ==
    IF state.canvasWidth # 0 /\ state.canvasHeight # 0
       /\ (w # state.canvasWidth \/ h # state.canvasHeight)
    THEN <<state.canvasWidth, state.canvasHeight>>
    ELSE <<w, h>>

restoredBackground(state, bg) ==
    IF bg # state.backgroundColor THEN state.backgroundColor ELSE bg

\* _restoreState(canvas, state) up to await canvas.loadFromJSON(state.json)
\* for the call r: its snapshot r.state, the operation r.op that made it,
\* r.solo, whether no other restore was suspended when it started, the
\* cursor (r.from) and the canvas (r.before) as they were before that call,
\* and the time of the call (r.at)
_restoreState(r) ==
    /\ isRestoring' = TRUE
    /\ width' = restoredSize(r.state, width, height)[1]
    /\ height' = restoredSize(r.state, width, height)[2]
    /\ backgroundColor' = restoredBackground(r.state, backgroundColor)
    /\ pending' = Append(pending, r)
    /\ ret' = "promise"

\* undo/redo when canUndo/canRedo is false: return false
Refused ==
    /\ ret' = "false"
    /\ saved' = "none"
    /\ delivered' = <<>>
    /\ Notified
    /\ events' = <<>>
    /\ completed' = <<>>
    /\ trip' = <<>>
    /\ UNCHANGED <<states, currentIndex, maxStates, isRestoring, objects,
                   width, height, backgroundColor, cmSize, layers,
                   layerCounter, pending, cloning, commitRun>>

\* undo/redo moving the cursor to idx: return this._restoreState(canvas,
\* this.states[idx]), which returns false at once if there is no such state
Moved(idx, op) ==
    /\ currentIndex' = idx
    /\ IF idx + 1 \in 1..Len(states)
       THEN /\ Len(pending) < MaxPending
            /\ _restoreState([state |-> states[idx + 1], op |-> op,
                              solo |-> pending = <<>>, from |-> currentIndex,
                              before |-> serialized, at |-> now])
       ELSE /\ ret' = "false"
            /\ UNCHANGED <<isRestoring, width, height, backgroundColor, pending>>
    /\ saved' = "none"
    /\ delivered' = <<>>
    /\ Notified
    /\ events' = <<>>
    /\ completed' = <<>>
    /\ commitRun' = -1
    /\ UNCHANGED <<states, maxStates, objects, cmSize, layers, layerCounter,
                   cloning>>

undo ==
    /\ Handler("undo")
    /\ cropTool' = cancelIfActive(cropTool)
    /\ lastCommit' = IF lastCommit # <<>> /\ ~lastCommit[1].undone
                     THEN <<[lastCommit[1] EXCEPT !.undone = TRUE]>>
                     ELSE <<>>
    /\ IF ~canUndo(currentIndex) THEN Refused
       ELSE /\ Moved(currentIndex - 1, "undo")
            /\ trip' = IF pending = <<>>
                       THEN <<[phase |-> "undo", before |-> serialized,
                               locked |-> [i \in 1..Len(objects) |->
                                              objects[i].isLocked = TRUE],
                               committed |-> /\ lastCommit # <<>>
                                             /\ ~lastCommit[1].undone]>>
                       ELSE <<>>

redo ==
    /\ Handler("redo")
    /\ cropTool' = cancelIfActive(cropTool)
    /\ lastCommit' = <<>>
    /\ IF ~canRedo(states, currentIndex) THEN Refused
       ELSE /\ Moved(currentIndex + 1, "redo")
            /\ trip' = IF trip # <<>> /\ trip[1].phase = "undone"
                       THEN <<[trip[1] EXCEPT !.phase = "redo"]>>
                       ELSE <<>>

\* _restoreState after the await of the k-th suspended call: loadFromJSON has
\* replaced the objects of the canvas (object:removed and object:added rebuild
\* the layer list); renderAll (line 122), the guard is cleared (123), the
\* subscribers are notified (124), and then canvas:restored is dispatched
\* (128), which makes the CanvasManager take the size
restored(k) ==
    /\ lastOp' = "restored"
    /\ args' = <<>>
    /\ activeShape' = IF activeShape = 0 THEN 0 ELSE -1
    /\ UNCHANGED <<_textChangeTimeout, cropTool>>
    /\ isRestoring' = FALSE
    /\ LET state == pending[k].state
           objs == loadFromJSON(state.json)
       IN /\ objects' = objs
          /\ layers' = _syncLayersFromCanvas(objs)
          /\ events' = <<[width |-> state.canvasWidth,
                          height |-> state.canvasHeight,
                          isRestoring |-> isRestoring']>>
          /\ cmSize' = IF state.canvasWidth # 0 /\ state.canvasHeight # 0
                       THEN <<state.canvasWidth, state.canvasHeight>>
                       ELSE cmSize
    /\ delivered' = <<getInfo(states, currentIndex)>>
    /\ Notified
    /\ pending' = RemoveAt(pending, k)
    /\ completed' = <<pending[k]>>
    /\ trip' = IF trip = <<>> THEN <<>>
               ELSE IF trip[1].phase = "undo"
                    THEN <<[trip[1] EXCEPT !.phase = "undone"]>>
               ELSE IF trip[1].phase = "redo"
                    THEN <<[trip[1] EXCEPT !.phase = "redone"]>>
               ELSE <<>>
    /\ ret' = "true"
    /\ saved' = "none"
    /\ lastCommit' = <<>>
    /\ UNCHANGED <<states, currentIndex, maxStates, width, height,
                   backgroundColor, layerCounter, cloning, now, commitRun>>

\* the await of the k-th suspended call throws: loadFromJSON could not build
\* the objects of the snapshot (an image that does not load) and left the
\* canvas as it was; nothing after line 120 runs and the promise that undo or
\* redo returned is rejected
loadRejected(k) ==
    /\ lastOp' = "loadRejected"
    /\ args' = <<>>
    /\ pending' = RemoveAt(pending, k)
    /\ completed' = <<pending[k]>>
    /\ ret' = "rejected"
    /\ saved' = "none"
    /\ delivered' = <<>>
    /\ Notified
    /\ events' = <<>>
    /\ lastCommit' = <<>>
    /\ trip' = <<>>
    /\ UNCHANGED <<states, currentIndex, maxStates, isRestoring, objects,
                   width, height, backgroundColor, cmSize, layers,
                   layerCounter, cloning, activeShape, _textChangeTimeout,
                   cropTool, now, commitRun>>

\* ------------------------------------------------------- specification
Init ==
    /\ states = <<>>
    /\ currentIndex = -1
    /\ maxStates \in {1, MaxCapacity}
    /\ isRestoring = FALSE
    /\ objects = <<>>
    /\ width = 1
    /\ height = 1
    /\ backgroundColor = "#ffffff"
    /\ cmSize = <<width, height>>
    /\ layers = <<>>
    /\ layerCounter = 0
    /\ pending = <<>>
    /\ cloning = <<>>
    /\ activeShape = 0
    /\ _textChangeTimeout = <<>>
    /\ cropTool = [isActive |-> FALSE, cropRect |-> FALSE, applying |-> <<>>]
    /\ now = 0
    /\ lastOp = "init"
    /\ args = <<>>
    /\ saved = "none"
    /\ ret = "none"
    /\ delivered = <<>>
    /\ lastInfo = <<>>
    /\ events = <<>>
    /\ lastCommit = <<>>
    /\ commitRun = 0
    /\ completed = <<>>
    /\ trip = <<>>

Next ==
    \/ AddRectangle
    \/ \E i \in 1..Len(objects) : ObjectModified(i)
    \/ \E i \in 1..Len(objects) : DeleteSelected(i)
    \/ \E n \in NewSizes : ResizeCanvas(n[1], n[2])
    \/ \E n \in NewCanvases : CreateNewCanvas(n[1], n[2], n[3])
    \/ \E id \in LayerIds : toggleLayerVisibility(id)
    \/ \E id \in LayerIds : toggleLayerLock(id)
    \/ \E a \in DragIds, b \in LayerIds : reorderLayers(a, b)
    \/ \E kind \in StackingKinds, i \in 1..Len(objects) : ChangeStacking(kind, i)
    \/ \E id \in LayerIds, n \in NewNames : renameLayer(id, n)
    \/ \E id \in LayerIds : deleteLayer(id)
    \/ \E id \in LayerIds : duplicateLayer(id)
    \/ cloneResolved
    \/ undo
    \/ redo
    \/ \E k \in 1..Len(pending) : restored(k)
    \/ \E k \in 1..Len(pending) : loadRejected(k)

Spec == Init /\ [][Next]_vars

\* the same editor with a clock that can stand still between two calls of
\* addRectangle: Date.now() counts milliseconds
NextClock ==
    \/ Next
    \/ AddRectangleAtOnce

SpecClock == Init /\ [][NextClock]_vars

\* the same editor with layer opacities set
NextOpacity ==
    \/ Next
    \/ \E id \in LayerIds, o \in NewOpacities : setLayerOpacity(id, o)

SpecOpacity == Init /\ [][NextOpacity]_vars

\* the same editor with text objects edited
NextText ==
    \/ Next
    \/ addText
    \/ \E i \in 1..Len(objects) : textChanged(i)
    \/ textTimerFired

SpecText == Init /\ [][NextText]_vars

\* the same editor with the crop tool; CropSizes are the sizes of the crop
\* rectangle tried
CropSizes == {<<1, 1>>}

NextCrop ==
    \/ Next
    \/ activateCrop
    \/ \E c \in CropSizes : applyCrop(c[1], c[2])
    \/ cropLoaded

SpecCrop == Init /\ [][NextCrop]_vars

\* the same editor with shapes drawn by dragging on the canvas
NextDraw ==
    \/ Next
    \/ _handleMouseDown
    \/ \E small \in BOOLEAN : _handleMouseUp(small)

SpecDraw == Init /\ [][NextDraw]_vars

\* the history on its own, with a capacity of MaxCapacity + 1 and MaxSteps
\* handlers: only the handlers that commit, clear, undo and redo, and the
\* completion of a restore
InitHistory ==
    /\ states = <<>>
    /\ currentIndex = -1
    /\ maxStates = MaxCapacity + 1
    /\ isRestoring = FALSE
    /\ objects = <<>>
    /\ width = 1
    /\ height = 1
    /\ backgroundColor = "#ffffff"
    /\ cmSize = <<width, height>>
    /\ layers = <<>>
    /\ layerCounter = 0
    /\ pending = <<>>
    /\ cloning = <<>>
    /\ activeShape = 0
    /\ _textChangeTimeout = <<>>
    /\ cropTool = [isActive |-> FALSE, cropRect |-> FALSE, applying |-> <<>>]
    /\ now = MaxTime - MaxSteps
    /\ lastOp = "init"
    /\ args = <<>>
    /\ saved = "none"
    /\ ret = "none"
    /\ delivered = <<>>
    /\ lastInfo = <<>>
    /\ events = <<>>
    /\ lastCommit = <<>>
    /\ commitRun = 0
    /\ completed = <<>>
    /\ trip = <<>>

NextHistory ==
    \/ AddRectangle
    \/ \E i \in 1..Len(objects) : ObjectModified(i)
    \/ \E n \in NewCanvases : CreateNewCanvas(n[1], n[2], n[3])
    \/ undo
    \/ redo
    \/ \E k \in 1..Len(pending) : restored(k)

SpecHistory == InitHistory /\ [][NextHistory]_vars

\* ================================================================ claims

\* C1: the history never holds more than maxStates snapshots, and after N
\* accepted saveState calls on a new history, with no undo, redo or clear so
\* far, it holds min(N, maxStates) of them.
C1_Capacity ==
    /\ Len(states) <= maxStates
    /\ commitRun >= 0 => Len(states) = Min(commitRun, maxStates)

\* more commits than the capacity, nothing else: the oldest were evicted
C1_Witness == commitRun > maxStates /\ saved = "accepted"

\* C2: the cursor is between -1 and the last index, and it is -1 only when
\* there is no snapshot; in every state, also while restores are suspended.
C2_CursorInRange ==
    /\ -1 <= currentIndex
    /\ currentIndex < Len(states)
    /\ currentIndex = -1 => states = <<>>

\* clear() and the ignored saveState of createNewCanvas during a restore
C2_Witness ==
    /\ lastOp = "createNewCanvas"
    /\ pending # <<>>
    /\ saved = "ignored"
    /\ currentIndex = -1

\* C3: an accepted saveState with the cursor before the last snapshot leaves
\* the snapshots up to the cursor followed by the new snapshot, which holds
\* the canvas as the handler left it; the cursor is on it and canRedo is
\* false.
C3_Truncation ==
    (/\ lastCommit # <<>>
     /\ ~lastCommit[1].undone
     /\ lastCommit[1].oldIndex < Len(lastCommit[1].old) - 1)
    => LET c == lastCommit[1]
       IN /\ states = SubSeq(c.old, 1, c.oldIndex + 1) \o <<c.new>>
          /\ c.new.json = toJSON(objects)
          /\ currentIndex = Len(states) - 1
          /\ ~getInfo(states, currentIndex).canRedo

\* a commit made after an undo, with a redo branch to discard
C3_Witness ==
    /\ lastCommit # <<>>
    /\ ~lastCommit[1].undone
    /\ lastCommit[1].oldIndex >= 0
    /\ lastCommit[1].oldIndex < Len(lastCommit[1].old) - 1

\* the last handler's saveState pushed the history over its capacity
Evicting ==
    /\ lastCommit # <<>>
    /\ lastCommit[1].oldIndex + 2 > maxStates

\* the history right after it: the kept snapshots and the new one without
\* the oldest, the cursor one less than after the push and on the new one
EvictedOldest ==
    LET c == lastCommit[1]
        full == SubSeq(c.old, 1, c.oldIndex + 1) \o <<c.new>>
    IN /\ states = Tail(full)
       /\ currentIndex = (c.oldIndex + 1) - 1
       /\ currentIndex = Len(states) - 1
       /\ states[currentIndex + 1] = c.new

\* the undo right after it restores the snapshot the cursor was on before
\* the commit, which is still stored and is not the evicted one
UndoRestoresPrevious ==
    LET c == lastCommit[1]
    IN /\ lastOp = "undo"
       /\ ret = "promise"
       /\ pending[Len(pending)].state = c.old[c.oldIndex + 1]
       /\ pending[Len(pending)].state = states[currentIndex + 1]
       /\ pending[Len(pending)].state # c.old[1]

\* C4 as stated: a saveState that exceeds the capacity evicts exactly the
\* oldest snapshot and leaves the cursor on the new one, and an undo that
\* follows restores the snapshot committed just before, for every capacity.
C4_AnyCapacity ==
    Evicting => IF lastCommit[1].undone THEN UndoRestoresPrevious
                ELSE EvictedOldest

\* C4, amended: the same for a capacity of at least 2; with capacity 1 the
\* snapshot committed just before is the evicted one, and the undo that
\* follows returns false and restores nothing.
C4_Eviction ==
    Evicting => IF ~lastCommit[1].undone THEN EvictedOldest
                ELSE IF maxStates >= 2 THEN UndoRestoresPrevious
                ELSE /\ ret = "false"
                     /\ lastCommit[1].old[lastCommit[1].oldIndex + 1]
                           \notin {states[i] : i \in 1..Len(states)}

\* an undo right after an evicting commit has started its restore
C4_Witness ==
    /\ Evicting
    /\ lastCommit[1].undone
    /\ ret = "promise"
    /\ Len(pending) = 1
    /\ pending[1].state = states[currentIndex + 1]
    /\ pending[1].op = "undo"
    /\ pending[1].solo

\* C5: a saveState called while a restore is suspended is ignored: it leaves
\* the snapshots and the cursor as they are and notifies nobody
\* (createNewCanvas calls clear() first, which does both).
C5_IgnoredInFlight ==
    [][(pending # <<>> /\ saved' # "none")
       => /\ saved' = "ignored"
          /\ lastOp' # "createNewCanvas"
             => /\ states' = states
                /\ currentIndex' = currentIndex
                /\ delivered' = <<>>]_vars

\* C6: isRestoring is true as long as some restore has started its load and
\* the canvas does not yet hold its snapshot.
C6_GuardWhileLoading == pending # <<>> => isRestoring

\* C7: at most one restore is suspended, and an undo or redo called while
\* one is neither moves the cursor nor starts another.
C7_OneRestore ==
    [][/\ Len(pending') <= 1
       /\ (pending # <<>> /\ lastOp' \in {"undo", "redo"})
          => currentIndex' = currentIndex /\ pending' = pending]_vars

\* C8: an undo started with no restore suspended, its completion, a redo and
\* its completion leave the canvas serialized as it was before the undo.
C8_RoundTrip ==
    (trip # <<>> /\ trip[1].phase = "redone") => serialized = trip[1].before

\* C9: undo with the cursor at 0 or below, and redo with the cursor on the
\* last snapshot, return false and change neither the history, the guard,
\* the canvas nor the layer list; nobody is notified, no event is sent.
C9_RefusedChangesNothing ==
    [][(\/ lastOp' = "undo" /\ currentIndex <= 0
        \/ lastOp' = "redo" /\ currentIndex >= Len(states) - 1)
       => /\ ret' = "false"
          /\ UNCHANGED <<states, currentIndex, isRestoring, objects, width,
                         height, backgroundColor, cmSize, layers, pending>>
          /\ delivered' = <<>>
          /\ events' = <<>>]_vars

\* an undo refused on the first snapshot
C9_Witness ==
    /\ lastOp = "undo"
    /\ ret = "false"
    /\ currentIndex = 0
    /\ objects # <<>>

\* the canvas as the snapshot st would have serialized it
SceneOf(st) ==
    [json |-> st.json, width |-> st.canvasWidth, height |-> st.canvasHeight,
     backgroundColor |-> st.backgroundColor]

\* C10: undo with the cursor above 0 and no restore suspended moves the
\* cursor down by one and returns a promise (redo: up by one), the snapshots
\* stay as they are, and when that restore completes the promise resolves to
\* true and the canvas holds the snapshot the cursor was moved to.
C10_RestoresCursorSnapshot ==
    [][/\ (lastOp' = "undo" /\ currentIndex > 0 /\ pending = <<>>)
          => /\ currentIndex' = currentIndex - 1
             /\ ret' = "promise"
             /\ states' = states
             /\ Len(pending') = 1
             /\ pending'[1].state = states[currentIndex' + 1]
             /\ pending'[1].op = "undo"
       /\ (lastOp' = "redo" /\ currentIndex < Len(states) - 1 /\ pending = <<>>)
          => /\ currentIndex' = currentIndex + 1
             /\ ret' = "promise"
             /\ states' = states
             /\ Len(pending') = 1
             /\ pending'[1].state = states[currentIndex' + 1]
             /\ pending'[1].op = "redo"
       /\ (lastOp' = "restored" /\ completed'[1].solo)
          => /\ ret' = "true"
             /\ states' = states
             /\ serialized' = SceneOf(completed'[1].state)]_vars

\* C11: a restore that has finished or failed with no other one suspended
\* leaves isRestoring false, and a saveState called while no restore is
\* suspended is never ignored.
C11_ReturnsToIdle ==
    [][/\ (lastOp' \in {"restored", "loadRejected"} /\ pending' = <<>>)
          => ~isRestoring'
       /\ (pending = <<>> /\ saved' # "none") => saved' = "accepted"]_vars

\* the load of the only suspended restore fails right after the undo or redo
\* that started it, with no other handler in between
FailedAtOnce ==
    /\ lastOp \in {"undo", "redo"}
    /\ ret = "promise"
    /\ Len(pending) = 1
    /\ lastOp' = "loadRejected"

\* C12: an undo or redo that does not succeed, because it is refused or
\* because the load of its snapshot fails, leaves the cursor where it was
\* before the call.
C12_FailedKeepsCursor ==
    [][/\ (lastOp' \in {"undo", "redo"} /\ ret' = "false")
          => currentIndex' = currentIndex
       /\ FailedAtOnce => currentIndex' = completed'[1].from]_vars

\* C13: when the load of the snapshot fails, the objects, the size and the
\* background of the canvas are what they were before the undo or redo.
C13_FailedLeavesScene ==
    [][FailedAtOnce => serialized' = completed'[1].before]_vars

\* the objects the descriptors of getLayers() refer to, in list order
getLayers == [i \in 1..Len(layers) |-> layers[i].object]

\* C14: the layer list is the reverse of the draw order of the canvas, each
\* descriptor referring to the live object at that place; in every state,
\* also after a stacking change made by another tool and after a restore.
C14_LayersMirrorCanvas ==
    getLayers = Reverse([i \in 1..Len(objects) |-> objects[i].ref])

\* C15: reorderLayers with both layers in the list and both objects on the
\* canvas puts the first object at the index the second one had, keeps the
\* other objects in their order and every object as it was, and leaves the
\* layer list rebuilt from the new order.
C15_ReorderMoves ==
    [][(/\ lastOp' = "reorderLayers"
        /\ LayerObject(args'[1]) # 0
        /\ LayerObject(args'[2]) # 0)
       => LET fromIndex == LayerObject(args'[1])
              toIndex == LayerObject(args'[2])
              moved == InsertAt(RemoveAt(objects, fromIndex), toIndex,
                                objects[fromIndex])
          IN /\ objects' = moved
             /\ layers' = _syncLayersFromCanvas(moved)]_vars

\* C16: reorderLayers with a layer that is not in the list, or whose object
\* is not on the canvas, changes neither the canvas, the layer list nor the
\* history, notifies nobody and raises no error.
C16_ReorderNoOp ==
    [][(/\ lastOp' = "reorderLayers"
        /\ (LayerObject(args'[1]) = 0 \/ LayerObject(args'[2]) = 0))
       => /\ UNCHANGED <<objects, layers, width, height, backgroundColor,
                         states, currentIndex, isRestoring, pending>>
          /\ delivered' = <<>>
          /\ ret' = "none"]_vars

\* a drop of a layer that is no longer in the list onto the only layer left
C16_Witness ==
    /\ lastOp = "reorderLayers"
    /\ args[1] = StaleId
    /\ args[2] \in LayerIds
    /\ Len(layers) = 1
    /\ states # <<>>
    /\ ret = "none"

\* C17: the subscriber is called during the handler, exactly once for each
\* accepted saveState, each undo and redo that moves the cursor and each
\* clear, with getInfo() of that moment (createNewCanvas calls clear and then
\* saveState).
C17_NotifiedSynchronously ==
    [][/\ (saved' = "accepted" /\ lastOp' # "createNewCanvas")
          => delivered' = <<getInfo(states', currentIndex')>>
       /\ lastOp' = "createNewCanvas"
          => delivered' = <<getInfo(<<>>, -1)>>
                 \o IF saved' = "accepted"
                    THEN <<getInfo(states', currentIndex')>>
                    ELSE <<>>
       /\ (lastOp' \in {"undo", "redo"} /\ ret' = "promise")
          => delivered' = <<getInfo(states', currentIndex')>>]_vars

\* C18: when a snapshot is restored by an undo and redo that follow its
\* commit with nothing in between, every object has the layerId, layerName,
\* selectable and evented it had at the commit, and the lock flag too: the
\* layer list reports as locked the layers that were locked.
C18_TagsSurviveRestore ==
    (trip # <<>> /\ trip[1].phase = "redone" /\ trip[1].committed)
    => /\ Len(objects) = Len(trip[1].locked)
       /\ \A i \in 1..Len(objects) :
            /\ objects[i].layerId = trip[1].before.json[i].layerId
            /\ objects[i].layerName = trip[1].before.json[i].layerName
            /\ objects[i].selectable = trip[1].before.json[i].selectable
            /\ objects[i].evented = trip[1].before.json[i].evented
            /\ (objects[i].isLocked = TRUE) = trip[1].locked[i]
            /\ Reverse(layers)[i].locked = trip[1].locked[i]

\* C19: a restore started with no other one suspended resizes the canvas and
\* sets the background when it starts, leaving the objects; when its load
\* completes the objects are replaced, one canvas:restored event carries the
\* size of the snapshot, and its listeners run before isRestoring is cleared.
C19_StepsInOrder ==
    [][/\ (lastOp' \in {"undo", "redo"} /\ ret' = "promise" /\ pending = <<>>)
          => /\ <<width', height'>> = restoredSize(pending'[1].state, width, height)
             /\ backgroundColor' = pending'[1].state.backgroundColor
             /\ objects' = objects
             /\ isRestoring'
             /\ events' = <<>>
       /\ (lastOp' = "restored" /\ Len(pending) = 1)
          => /\ toJSON(objects') = completed'[1].state.json
             /\ Len(events') = 1
             /\ events'[1].width = completed'[1].state.canvasWidth
             /\ events'[1].height = completed'[1].state.canvasHeight
             /\ events'[1].isRestoring
             /\ ~isRestoring']_vars

\* C20: a stored snapshot never changes. undo, redo and the completion or
\* failure of a restore leave the sequence of snapshots as it is; an accepted
\* saveState keeps the snapshots up to the cursor as they are, appends the new
\* one and drops the oldest when over capacity; only clear empties the sequence
\* (createNewCanvas calls clear and then saveState).
C20_SnapshotsImmutable ==
    [][LET kept == SubSeq(states, 1, Min(currentIndex + 1, Len(states)))
       IN /\ lastOp' \in {"undo", "redo", "restored", "loadRejected"}
             => states' = states
          /\ (saved' # "accepted" /\ lastOp' # "createNewCanvas")
             => states' = states
          /\ (saved' = "accepted" /\ lastOp' # "createNewCanvas")
             => /\ states' # <<>>
                /\ LET full == Append(kept, states'[Len(states')])
                   IN states' = IF Len(full) > maxStates THEN Tail(full)
                                ELSE full
          /\ lastOp' = "createNewCanvas"
             => \/ states' = <<>>
                \/ saved' = "accepted" /\ Len(states') = 1]_vars

\* a restore has completed and the snapshot it loaded is still the one stored
\* under the cursor, next to another one
C20_Witness ==
    /\ lastOp = "restored"
    /\ Len(states) = 2
    /\ completed[1].state = states[currentIndex + 1]

\* the last handler's saveState dropped the oldest snapshot
Evicted ==
    /\ lastCommit' # <<>>
    /\ Len(sliceBranch(lastCommit'[1].old, lastCommit'[1].oldIndex)) + 1 > maxStates

\* C21, as stated: no handler but clear (called by createNewCanvas) leaves
\* fewer snapshots than there were, unless its saveState evicted the oldest.
C21_ShrinksByEvictionOnly ==
    [][(lastOp' # "createNewCanvas" /\ ~Evicted)
       => Len(states') >= Len(states)]_vars

\* C21, amended: the same, unless the saveState also discarded a redo branch
\* of two snapshots or more; then the history holds the snapshots up to the
\* cursor and the new one, which is fewer than before.
C21_ShrinksByEvictionOrTruncation ==
    [][(lastOp' # "createNewCanvas" /\ ~Evicted)
       => IF saved' = "accepted" /\ currentIndex < Len(states) - 2
          THEN /\ Len(states') = currentIndex + 2
               /\ Len(states') < Len(states)
          ELSE Len(states') >= Len(states)]_vars

\* a commit made two undos back from the end of a history of three
C21_Witness ==
    /\ lastCommit # <<>>
    /\ ~lastCommit[1].undone
    /\ Len(lastCommit[1].old) = 3
    /\ lastCommit[1].oldIndex = 0
    /\ Len(states) = 2

\* what getInfo() has to return for the history (sts, idx)
InfoMatches(sts, idx) ==
    LET info == getInfo(sts, idx)
    IN /\ info.totalStates = Len(sts)
       /\ info.currentIndex = idx
       /\ info.canUndo = (idx > 0)
       /\ info.canRedo = (idx < Len(sts) - 1)
       /\ idx >= 0 => info.currentAction = sts[idx + 1].action

\* C22: getInfo() reports the number of snapshots, the cursor, canUndo =
\* cursor > 0, canRedo = cursor < length - 1 and the label under the cursor,
\* before and after every step; an undo (redo) is refused exactly when
\* canUndo (canRedo) was false.  With capacity 3, two commits, an undo and a
\* commit leave the first snapshot and the new one, the cursor on 1, canUndo
\* true and canRedo false.
C22_InfoMatchesHistory ==
    [][/\ InfoMatches(states, currentIndex)
       /\ InfoMatches(states', currentIndex')
       /\ lastOp' = "undo"
          => (ret' = "promise") = getInfo(states, currentIndex).canUndo
       /\ lastOp' = "redo"
          => (ret' = "promise") = getInfo(states, currentIndex).canRedo
       /\ (/\ maxStates = 3 /\ saved' = "accepted"
           /\ lastOp' # "createNewCanvas"
           /\ Len(states) = 2 /\ currentIndex = 0)
          => /\ Len(states') = 2
             /\ states'[1] = states[1]
             /\ states'[2] = lastCommit'[1].new
             /\ getInfo(states', currentIndex') =
                  [totalStates |-> 2, currentIndex |-> 1, canUndo |-> TRUE,
                   canRedo |-> FALSE,
                   currentAction |-> lastCommit'[1].new.action]]_vars

\* capacity 3: the commit after two commits and an undo has been made
C22_Witness ==
    /\ maxStates = 3
    /\ lastCommit # <<>>
    /\ ~lastCommit[1].undone
    /\ Len(lastCommit[1].old) = 2
    /\ lastCommit[1].oldIndex = 0
    /\ getInfo(states, currentIndex).canUndo
    /\ ~getInfo(states, currentIndex).canRedo

\* C23: after createNewCanvas, in whatever state it was called, the history
\* holds exactly one snapshot, labelled 'New Canvas', of the new canvas, with
\* the cursor on it and neither undo nor redo possible.
C23_NewCanvasResetsHistory ==
    [][lastOp' = "createNewCanvas"
       => /\ Len(states') = 1
          /\ states'[1].action = "New Canvas"
          /\ states'[1].json = toJSON(objects')
          /\ currentIndex' = 0
          /\ ~getInfo(states', currentIndex').canUndo
          /\ ~getInfo(states', currentIndex').canRedo]_vars

\* C24: no two objects on the canvas have the same layerId.
C24_UniqueLayerIds ==
    \A i, j \in 1..Len(objects) :
        i # j => objects[i].layerId # objects[j].layerId

\* C25: every layer descriptor has an id; an object that is on the canvas
\* with a layerId keeps that layerId as long as it is there, and the objects
\* a restore builds have the layerIds of the snapshot.
C25_IdentityAssignedOnce ==
    [][/\ \A i \in 1..Len(layers') : layers'[i].id # <<>>
       /\ lastOp' # "restored"
          => \A i \in 1..Len(objects), j \in 1..Len(objects') :
                (objects[i].ref = objects'[j].ref /\ objects[i].layerId # <<>>)
                => objects'[j].layerId = objects[i].layerId
       /\ lastOp' = "restored"
          => \A j \in 1..Len(objects') :
                objects'[j].layerId = completed'[1].state.json[j].layerId]_vars

\* the handlers that end with the layer list rebuilt from the canvas
ResyncOps ==
    {"addRectangle", "deleteSelected", "createNewCanvas", "deleteLayer",
     "cloneResolved", "restored", "mouseDown"}

\* C26: after a handler that rebuilds the layer list, every descriptor has
\* the visible, opacity and locked of its object.
C26_DescriptorsMirrorObjects ==
    [][lastOp' \in ResyncOps
       => \A i \in 1..Len(layers') :
            LET o == objects'[IndexOfRef(objects', layers'[i].object)]
            IN /\ layers'[i].visible = o.visible
               /\ layers'[i].opacity = o.opacity
               /\ layers'[i].locked = (o.isLocked = TRUE)]_vars

\* two restores, the second started by the handler right after the one that
\* started the first, with no other handler since: one has completed in the
\* last step and the other is the only one still suspended
TwoInARow ==
    /\ lastOp = "restored"
    /\ completed # <<>>
    /\ Len(pending) = 1
    /\ LET first == IF pending[1].solo THEN pending[1] ELSE completed[1]
           second == IF pending[1].solo THEN completed[1] ELSE pending[1]
       IN /\ first.solo
          /\ ~second.solo
          /\ second.at = first.at + 1
          /\ now = second.at + 1

\* C27: when undo or redo is called twice in a row, the second call while
\* the load of the first is pending, then once both loads have finished, in
\* whichever order, the objects, the size and the background of the canvas
\* are those of the snapshot under the cursor.
C27_SceneAtCursor ==
    [][(TwoInARow /\ lastOp' = "restored")
       => serialized' = SceneOf(states'[currentIndex' + 1])]_vars

\* C28: the timer of a text change made before an undo was called does not
\* save a state when it fires after that undo has completed: the redo branch
\* is still there.
C28_TimerKeepsRedoBranch ==
    [][(/\ lastOp' = "textTimerFired"
        /\ lastOp = "restored"
        /\ completed[1].op = "undo"
        /\ completed[1].solo
        /\ completed[1].at > _textChangeTimeout[1])
       => /\ saved' # "accepted"
          /\ states' = states
          /\ getInfo(states', currentIndex').canRedo]_vars

\* C29: when applyCrop has finished, the last two snapshots are 'Before
\* Crop' and 'Crop', the cursor is on 'Crop', and 'Before Crop' holds the
\* objects and the size the canvas had when applyCrop was called, whatever
\* ran while the cropped image was loading (for a history that has room for
\* two snapshots).
C29_CropSnapshotsAdjacent ==
    [][(lastOp' = "cropLoaded" /\ maxStates >= 2)
       => LET n == Len(states')
              a == cropTool.applying[1]
          IN /\ n >= 2
             /\ states'[n - 1].action = "Before Crop"
             /\ states'[n].action = "Crop"
             /\ currentIndex' = n - 1
             /\ SceneOf(states'[n - 1]) = a.before]_vars

\* C30: whenever no restore is suspended and the subscriber has been
\* notified at least once, the last info it got has the totalStates,
\* currentIndex, canUndo and canRedo of the history as it is now.
C30_LastInfoCurrent ==
    (pending = <<>> /\ lastInfo # <<>>)
    => LET info == getInfo(states, currentIndex)
       IN /\ lastInfo[1].totalStates = info.totalStates
          /\ lastInfo[1].currentIndex = info.currentIndex
          /\ lastInfo[1].canUndo = info.canUndo
          /\ lastInfo[1].canRedo = info.canRedo

====
